---- MODULE Spec2Model ----
(***************************************************************************)
(* Model of the data-collection loop game_loop() of                        *)
(* src/manual_control_record_e2c_diff_init.py and of the helpers it calls  *)
(* (generate_random_starting_pts, generate_random_velocity,                *)
(* transform_to_arr, World.tick, World.destroy, HUD.on_world_tick,         *)
(* KeyboardControl.parse_events).                                          *)
(*                                                                         *)
(* Numbers are fixed point.  random.random() returns d / RndLevels for a   *)
(* d in 0 .. RndLevels-1, and every length is kept in units of             *)
(* 1 / (10 * RndLevels) metre, every speed in units of 1 / RndLevels m/s   *)
(* and every angle in units of 1 / RndLevels degree, so that               *)
(* radius * (2 * random.random() - 1) is the integer                       *)
(* radius * (2 * d - RndLevels).  One world frame lasts 0.1 s, so a speed  *)
(* of v units moves the actor v length units per frame.                    *)
(***************************************************************************)
EXTENDS Integers, Sequences, FiniteSets, TLC

(***************************************************************************)
(* Bounds of the model.  The first four scale constants of game_loop down  *)
(* (source values: num_wp = 500, num_init_pt = 200, horizon = 50, frame    *)
(* budget 400); RndLevels is the number of values random.random() takes;   *)
(* MaxTickFaults bounds how often in a run a frame is missed between two   *)
(* tick waits or a tick wait returns before the tick's callback has run.   *)
(***************************************************************************)
num_wp == 2

num_init_pt == 2

horizon == 2

FrameBudget == 4

RndLevels == 4

MaxTickFaults == 1

\* the arguments of norm that are tried: x in -MaxNormX .. MaxNormX, x_max in -MaxNormXMax .. MaxNormXMax
MaxNormX == 8

MaxNormXMax == 3

(***************************************************************************)
(* Program constants, in tenths of a metre and in m/s.                     *)
(***************************************************************************)
radius == 18

max_vel == 30

sampling_radius == 20

HalfTurn == 180

Scale == RndLevels

(***************************************************************************)
(* The road graph (carla.Map / carla.Waypoint): a ring of five waypoints   *)
(* 0 .. 4 one sampling radius apart; a side road leaves waypoint 0 and     *)
(* ends at waypoint 5, one sampling radius away; a wider lane leaves       *)
(* waypoint 1 through waypoint 6                                           *)
(* and joins the ring again at waypoint 3.                                 *)
(***************************************************************************)
Waypoints == 0 .. 6

WpLoc(w) ==
    CASE w = 5 -> [x |-> 0, y |-> sampling_radius * Scale, z |-> 0]
      [] w = 6 -> [x |-> 2 * sampling_radius * Scale, y |-> 0 - 3 * sampling_radius * Scale, z |-> 0]
      [] OTHER -> [x |-> sampling_radius * Scale * w, y |-> 0, z |-> 0]

\* wp.next(sampling_radius): the list of successors
WpNext(w) ==
    CASE w = 0 -> <<1, 5>>
      [] w = 1 -> <<2, 6>>
      [] w = 2 -> <<3>>
      [] w = 3 -> <<4>>
      [] w = 4 -> <<0>>
      [] w = 6 -> <<3>>
      [] OTHER -> << >>

\* wp.lane_width, in tenths of a metre
LaneWidth(w) == IF w = 6 THEN 40 ELSE IF w = 2 THEN 36 ELSE 35

Dist2(a, b) == (a.x - b.x) * (a.x - b.x) + (a.y - b.y) * (a.y - b.y)

GetWaypoint(loc) ==
    CHOOSE w \in Waypoints :
        \A u \in Waypoints :
            \/ Dist2(loc, WpLoc(w)) < Dist2(loc, WpLoc(u))
            \/ (Dist2(loc, WpLoc(w)) = Dist2(loc, WpLoc(u)) /\ w <= u)

start_loc == [x |-> 4 * Scale, y |-> 0 - 6 * Scale, z |-> 0]

org_wp == GetWaypoint(start_loc)

(***************************************************************************)
(* Python's random module: a seeded generator.  The seed (rng, rngInc) is  *)
(* unknown, so Init chooses it; the n-th draw after state s is Draw(s,c,n): *)
(* the stream steps through the levels upwards or downwards.               *)
(***************************************************************************)
Draw(s, c, n) == (s + n * c) % RndLevels

\* random.choice(seq) for the draw d; seq must not be empty
Choice(seq, d) == seq[((d * Len(seq)) \div RndLevels) + 1]

\* variant: where the road ends the waypoint is taken once more instead of raising
SampleNext_stay(w, d) ==
    IF WpNext(w) = << >> THEN [ok |-> TRUE, wp |-> w]
    ELSE [ok |-> TRUE, wp |-> Choice(WpNext(w), d)]

\* random.choice(w.next(sampling_radius)) for the draw d; ok is FALSE when the list of
\* successors is empty (random.choice raises IndexError)
SampleNext(w, d) ==
    IF WpNext(w) = << >> THEN [ok |-> FALSE, wp |-> w]
    ELSE [ok |-> TRUE, wp |-> Choice(WpNext(w), d)]

Rotation(yaw) == [pitch |-> 0, yaw |-> yaw, roll |-> 0]

Transform(loc, rot) ==
    [x |-> loc.x, y |-> loc.y, z |-> loc.z, pitch |-> rot.pitch, yaw |-> rot.yaw, roll |-> rot.roll]

\* variant: the guard with the comparison turned round
RadiusCheckFails_exceeds(w) == 2 * radius > LaneWidth(w)

\* the guard of generate_random_starting_pts: radius < wp.lane_width / 2.0
RadiusCheckFails(w) == 2 * radius < LaneWidth(w)

\* variant: the offsets span the diameter instead of the radius
StartingPt_diameter(w, dx, dy, dyaw) ==
    Transform([x |-> WpLoc(w).x + 2 * radius * (2 * dx - RndLevels),
               y |-> WpLoc(w).y + 2 * radius * (2 * dy - RndLevels),
               z |-> WpLoc(w).z],
              Rotation(HalfTurn * (2 * dyaw - RndLevels)))

\* one pass of the loop body of generate_random_starting_pts with draws dx, dy, dyaw
StartingPt(w, dx, dy, dyaw) ==
    Transform([x |-> WpLoc(w).x + radius * (2 * dx - RndLevels),
               y |-> WpLoc(w).y + radius * (2 * dy - RndLevels),
               z |-> WpLoc(w).z],
              Rotation(HalfTurn * (2 * dyaw - RndLevels)))

\* variant: the starting points are generated around the origin of the path
generate_random_starting_pts_aroundOrigin(w, num, s, c) ==
    [n \in 1 .. num |->
        StartingPt(org_wp, Draw(s, c, 3 * (n - 1)), Draw(s, c, 3 * (n - 1) + 1), Draw(s, c, 3 * (n - 1) + 2))]

generate_random_starting_pts(w, num, s, c) ==
    [n \in 1 .. num |->
        StartingPt(w, Draw(s, c, 3 * (n - 1)), Draw(s, c, 3 * (n - 1) + 1), Draw(s, c, 3 * (n - 1) + 2))]

\* variant: the components span twice the maximum
generate_random_velocity_wide(mv, d1, d2) ==
    [x |-> 2 * mv * (2 * d1 - RndLevels), y |-> 2 * mv * (2 * d2 - RndLevels), z |-> 0]

generate_random_velocity(mv, d1, d2) ==
    [x |-> mv * (2 * d1 - RndLevels), y |-> mv * (2 * d2 - RndLevels), z |-> 0]

transform_to_arr(tf) == <<tf.x, tf.y, tf.z, tf.pitch, tf.yaw, tf.roll>>

(***************************************************************************)
(* The world simulator.  A frame moves the actor by its velocity; the      *)
(* autopilot (KeyboardControl.__init__ turns it on) sets the control.      *)
(***************************************************************************)
\* the control the autopilot applies during frame f: it throttles and brakes in turn
Autopilot(f) == [throttle |-> f % 2, steer |-> 0, brake |-> (f + 1) % 2]

ZeroVec == [x |-> 0, y |-> 0, z |-> 0]

Physics(v, n, c) ==
    [tf |-> [v.tf EXCEPT !.x = @ + n * v.vel.x, !.y = @ + n * v.vel.y],
     vel |-> v.vel,
     control |-> c]

\* variant: only the pose is installed, the velocity is left as it was
Install_poseOnly(v, tf, vel) == [v EXCEPT !.tf = tf]

\* world.vehicle.set_transform(x0); world.vehicle.set_velocity(init_vel)
Install(v, tf, vel) == [v EXCEPT !.tf = tf, !.vel = vel]

\* HUD.on_world_tick: self.frame_number = timestamp.frame
on_world_tick(timestamp) == timestamp.frame

\* the rows of game_loop: np.hstack of the captured values
FutureWpsNp(fw, cw) ==
    [n \in 1 .. Len(fw) |-> <<WpLoc(fw[n]).x - WpLoc(cw).x, WpLoc(fw[n]).y - WpLoc(cw).y>>]

RECURSIVE Flatten(_)
Flatten(m) == IF m = << >> THEN << >> ELSE Head(m) \o Flatten(Tail(m))

\* variant: the post-state is stacked in front of the pre-state
Row_postFirst(ctl, cl, cv, nl, nv, cw, fnp) ==
    <<ctl.throttle, ctl.steer, ctl.brake>>
        \o transform_to_arr(nl) \o <<nv.x, nv.y, nv.z>>
        \o transform_to_arr(cl) \o <<cv.x, cv.y, cv.z>>
        \o <<cl.x - WpLoc(cw).x, cl.y - WpLoc(cw).y>>
        \o Flatten(fnp)
        \o <<nl.x - WpLoc(cw).x, nl.y - WpLoc(cw).y>>

\* variant: the post-location is taken relative to the waypoint nearest to it
Row_postWp(ctl, cl, cv, nl, nv, cw, fnp) ==
    <<ctl.throttle, ctl.steer, ctl.brake>>
        \o transform_to_arr(cl) \o <<cv.x, cv.y, cv.z>>
        \o transform_to_arr(nl) \o <<nv.x, nv.y, nv.z>>
        \o <<cl.x - WpLoc(cw).x, cl.y - WpLoc(cw).y>>
        \o Flatten(fnp)
        \o <<nl.x - WpLoc(GetWaypoint(nl)).x, nl.y - WpLoc(GetWaypoint(nl)).y>>

Row(ctl, cl, cv, nl, nv, cw, fnp) ==
    <<ctl.throttle, ctl.steer, ctl.brake>>
        \o transform_to_arr(cl) \o <<cv.x, cv.y, cv.z>>
        \o transform_to_arr(nl) \o <<nv.x, nv.y, nv.z>>
        \o <<cl.x - WpLoc(cw).x, cl.y - WpLoc(cw).y>>
        \o Flatten(fnp)
        \o <<nl.x - WpLoc(cw).x, nl.y - WpLoc(cw).y>>

\* variant: the file is opened for writing, which truncates it
writerow_truncate(rows, r) == <<r>>

\* with open(outfile, 'a+') as csvFile: csv.writer(csvFile).writerow(row)
writerow(rows, r) == Append(rows, r)

\* variant: the window is cut short, without an error, where the road ends
RECURSIVE BuildFutureWps_short(_, _, _, _, _)
BuildFutureWps_short(fw, j, s, c, n) ==
    IF j = 0 \/ WpNext(fw[Len(fw)]) = << >> THEN [ok |-> TRUE, wps |-> fw, used |-> n]
    ELSE BuildFutureWps_short(Append(fw, Choice(WpNext(fw[Len(fw)]), Draw(s, c, n))), j - 1, s, c, n + 1)

\* variant: the loop over the horizon runs once less
RECURSIVE BuildFutureWps_oneLess(_, _, _, _, _)
BuildFutureWps_oneLess(fw, j, s, c, n) ==
    IF j <= 1 THEN [ok |-> TRUE, wps |-> fw, used |-> n]
    ELSE IF ~SampleNext(fw[Len(fw)], Draw(s, c, n)).ok THEN [ok |-> FALSE, wps |-> fw, used |-> n]
    ELSE BuildFutureWps_oneLess(Append(fw, SampleNext(fw[Len(fw)], Draw(s, c, n)).wp), j - 1, s, c, n + 1)

\* future_wps of game_loop: cur_wp followed by j successors, each random.choice(next(sampling_radius));
\* ok is FALSE when a next() list is empty (random.choice raises IndexError)
RECURSIVE BuildFutureWps(_, _, _, _, _)
BuildFutureWps(fw, j, s, c, n) ==
    IF j = 0 THEN [ok |-> TRUE, wps |-> fw, used |-> n]
    ELSE IF ~SampleNext(fw[Len(fw)], Draw(s, c, n)).ok THEN [ok |-> FALSE, wps |-> fw, used |-> n]
    ELSE BuildFutureWps(Append(fw, SampleNext(fw[Len(fw)], Draw(s, c, n)).wp), j - 1, s, c, n + 1)

(***************************************************************************)
(* norm(x, x_max).  The quotient is kept as a fraction with a positive     *)
(* denominator, so that the comparisons with 0 and 1 are exact.            *)
(***************************************************************************)
Rat(num, den) == IF den < 0 THEN [num |-> 0 - num, den |-> 0 - den] ELSE [num |-> num, den |-> den]

RatAdd(a, b) == Rat(a.num * b.den + b.num * a.den, a.den * b.den)

NotCalled == [raised |-> FALSE, error |-> "none", n |-> Rat(0, 1), called |-> FALSE]

\* variant: the value is returned without the test of its range
norm_noCheck(x, x_max) ==
    IF x_max = 0
    THEN [raised |-> TRUE, error |-> "ZeroDivisionError", n |-> Rat(0, 1), called |-> TRUE]
    ELSE [raised |-> FALSE, error |-> "none", n |-> RatAdd(Rat(x, x_max * 2), Rat(1, 2)), called |-> TRUE]

\* n = x/(x_max*2) + 0.5; returned if n > 0 and n < 1, ValueError otherwise
norm(x, x_max) ==
    IF x_max = 0
    THEN [raised |-> TRUE, error |-> "ZeroDivisionError", n |-> Rat(0, 1), called |-> TRUE]
    ELSE IF RatAdd(Rat(x, x_max * 2), Rat(1, 2)).num > 0
            /\ RatAdd(Rat(x, x_max * 2), Rat(1, 2)).num < RatAdd(Rat(x, x_max * 2), Rat(1, 2)).den
         THEN [raised |-> FALSE, error |-> "none", n |-> RatAdd(Rat(x, x_max * 2), Rat(1, 2)), called |-> TRUE]
         ELSE [raised |-> TRUE, error |-> "ValueError", n |-> RatAdd(Rat(x, x_max * 2), Rat(1, 2)), called |-> TRUE]

\* KeyboardControl.parse_events: True for a QUIT event or a quit shortcut, None otherwise
Events == {"NOEVENT", "QUIT", "KEYUP_ESCAPE", "KEYUP_F1", "KEYUP_BACKSPACE"}

parse_events(ev) == ev \in {"QUIT", "KEYUP_ESCAPE"}

\* K_BACKSPACE calls World.restart, which reads the pose and then calls
\* self._get_random_blueprint(); World has no such method (AttributeError)
restart_raises(ev) == ev = "KEYUP_BACKSPACE"

\* variant: World.tick looks for the controlled actor itself
world_tick_byIdentity(alive, others) == alive

\* variant: World.tick never reports the loss
world_tick_ignoreLoss(alive, others) == TRUE

\* World.tick: False when no actor of the vehicle's type is left
ActorsOfType(alive, others) == (IF alive THEN 1 ELSE 0) + (IF others THEN 1 ELSE 0)

world_tick(alive, others) == ~(ActorsOfType(alive, others) < 1)

\* variant: the loop runs once more, for i = 0 .. n
InRange_inclusive(n, len) == n <= len

\* for i in range(n): the loop runs for i = 0 .. n-1
InRange(n, len) == n < len

\* variant: the iteration over x0s skips every other element
IterNext_skip(n) == n + 2

\* for x0 in x0s: the iterator moves to the next element of the list
IterNext(n) == n + 1

\* variant: the frame counter is compared with the budget without the initial frame
EpisodeContinues_absolute(hf, f0) == hf < FrameBudget

\* variant: the loop still runs when the budget has just been reached
EpisodeContinues_inclusive(hf, f0) == hf - f0 <= FrameBudget

\* the test of the episode loop: hud.frame_number - init_frame_number < 400
EpisodeContinues(hf, f0) == hf - f0 < FrameBudget

VARIABLES
    pc,                 \* position in game_loop
    i, wps, wp,         \* the reference path loop
    x0s, k, x0, init_vel, init_frame_number,
    cur_loc, cur_vel, control, cur_wp, future_wps, future_wps_np,
    next_loc, next_vel, row,
    dataset,            \* the rows of outfile
    hud_frame_number,   \* hud.frame_number
    frame,              \* the frame of the world
    pending,            \* timestamps whose on_tick callback has not run yet
    vehicle,            \* world.vehicle as the simulator holds it
    heroAlive, othersOfType,
    destroyedActorRaises,   \* whether a call on the vanished actor raises (known once it is gone)
    rng, rngInc,        \* state of the random generator
    destroyed, pygameQuit,
    logged,             \* the exception main has logged
    norm_x, norm_x_max, norm_ret,   \* a call of norm: its arguments and its outcome
    missed, late,       \* frames missed and callbacks delivered late so far
    h                   \* history of the run, for the properties

vars ==
    <<pc, i, wps, wp, x0s, k, x0, init_vel, init_frame_number, cur_loc, cur_vel, control,
      cur_wp, future_wps, future_wps_np, next_loc, next_vel, row, dataset, hud_frame_number,
      frame, pending, vehicle, heroAlive, othersOfType, destroyedActorRaises, rng, rngInc,
      destroyed, pygameQuit, logged, norm_x, norm_x_max, norm_ret, missed, late, h>>

pathVars == <<i, wps, wp>>
episodeVars == <<x0s, k, x0, init_vel, init_frame_number>>
preVars == <<cur_loc, cur_vel, control, cur_wp, future_wps, future_wps_np>>
postVars == <<next_loc, next_vel>>
tickVars == <<hud_frame_number, frame, pending, missed, late>>
actorVars == <<heroAlive, othersOfType, destroyedActorRaises>>
endVars == <<destroyed, pygameQuit, logged>>
normVars == <<norm_x, norm_x_max, norm_ret>>

ZeroTf == Transform(ZeroVec, Rotation(0))

\* game_loop after its set-up, before the loop over the reference waypoints
GameInit ==
    /\ pc = "for_wp"
    /\ i = 0
    /\ wps = <<org_wp>>
    /\ wp = org_wp
    /\ x0s = << >>
    /\ k = 1
    /\ x0 = ZeroTf
    /\ init_vel = ZeroVec
    /\ init_frame_number = 0
    /\ cur_loc = ZeroTf
    /\ cur_vel = ZeroVec
    /\ control = [throttle |-> 0, steer |-> 0, brake |-> 0]
    /\ cur_wp = org_wp
    /\ future_wps = << >>
    /\ future_wps_np = << >>
    /\ next_loc = ZeroTf
    /\ next_vel = ZeroVec
    /\ row = << >>
    /\ dataset = << >>
    /\ frame = 1
    /\ hud_frame_number = 1
    /\ pending = << >>
    /\ vehicle = [tf |-> Transform(WpLoc(org_wp), Rotation(0)), vel |-> ZeroVec,
                  control |-> [throttle |-> 0, steer |-> 0, brake |-> 0]]
    /\ heroAlive = TRUE
    /\ othersOfType = FALSE
    /\ destroyedActorRaises = FALSE
    /\ rng \in 0 .. RndLevels - 1
    /\ rngInc \in {1, RndLevels - 1}
    /\ destroyed = 0
    /\ pygameQuit = 0
    /\ logged = "none"
    /\ missed = 0
    /\ late = 0
    /\ h = [exit |-> "none", installs |-> 0, waits |-> 0, episodes |-> 0,
            epRows |-> 0, epEnded |-> FALSE, epExact |-> TRUE,
            iter |-> 0, preIter |-> 0, postIter |-> 0,
            installFrame |-> 0, preFrame |-> 0, postFrame |-> 0,
            lastWait |-> "none", checksSinceWait |-> 0, uncheckedWait |-> FALSE,
            haltInstalls |-> 0, haltWaits |-> 0, haltRows |-> 0, haltPath |-> 0,
            rowIters |-> << >>, genCalls |-> 0, genWp |-> org_wp, genRaised |-> FALSE,
            error |-> "none", errorAt |-> "none", loops |-> 0, consumed |-> << >>,
            epIters |-> 0, epWaits |-> 0, preWaits |-> 0, postWaits |-> 0]

Init ==
    /\ GameInit
    /\ norm_x = 0
    /\ norm_x_max = 1
    /\ norm_ret = NotCalled

(***************************************************************************)
(* Control flow of game_loop.                                              *)
(***************************************************************************)
\* variant: the post-state is read before the second tick is awaited
BodySteps_postReadBeforeWait ==
    <<"parse_events", "world_tick", "wait_pre", "read_pre", "read_post", "wait_post", "append">>

\* variant: events are parsed after the first tick wait of the iteration
BodySteps_quitAfterWait ==
    <<"world_tick", "wait_pre", "parse_events", "read_pre", "wait_post", "read_post", "append">>

\* variant: the row is written before the post-state is read
BodySteps_appendBeforePost ==
    <<"parse_events", "world_tick", "wait_pre", "read_pre", "wait_post", "append", "read_post">>

\* variant: the pre-state is read before the first tick wait of the iteration
BodySteps_preReadBeforeWait ==
    <<"parse_events", "world_tick", "read_pre", "wait_pre", "wait_post", "read_post", "append">>

\* variant: the post-state is read without a second tick wait
BodySteps_singleWait ==
    <<"parse_events", "world_tick", "wait_pre", "read_pre", "read_post", "append">>

\* the statements of the body of the episode loop, in program order
BodySteps ==
    <<"parse_events", "world_tick", "wait_pre", "read_pre", "wait_post", "read_post", "append">>

StepIndex(p) == CHOOSE n \in 1 .. Len(BodySteps) : BodySteps[n] = p

\* the statement after p; the last one leads back to the loop test
After(p) == IF StepIndex(p) = Len(BodySteps) THEN "while" ELSE BodySteps[StepIndex(p) + 1]

\* a return or a raised exception inside the try block leads to the finally block
Halted(hh, reason, path, rows) ==
    [hh EXCEPT !.exit = reason, !.haltInstalls = hh.installs, !.haltWaits = hh.waits,
               !.haltRows = rows, !.haltPath = path]

\* variant: the exception is recorded and the loop over the initial conditions goes on
Raise_swallowed(err) ==
    /\ pc' = "for_x0"
    /\ h' = [Halted(h, "error", Len(wps), Len(dataset)) EXCEPT !.error = err, !.errorAt = pc]

\* an exception err raised by the statement at pc: nothing in game_loop catches it
Raise(err) ==
    /\ pc' = "finally"
    /\ h' = [Halted(h, "error", Len(wps), Len(dataset)) EXCEPT !.error = err, !.errorAt = pc]

\* main: except Exception as error: logging.exception(error); a return logs nothing
main_except(reason, err) == IF reason = "error" THEN err ELSE "none"

\* variant: the return only leaves the episode loop (a break)
Leave_break(reason) ==
    /\ pc' = "for_x0"
    /\ h' = Halted(h, reason, Len(wps), Len(dataset))

Leave(reason) ==
    /\ pc' = "finally"
    /\ h' = Halted(h, reason, Len(wps), Len(dataset))

\* variant: the tick wait of the installation is left out
AfterInstall_noWait == "read_init"

\* the statement after set_transform and set_velocity: world.world.wait_for_tick()
AfterInstall == "wait_install"

\* variant: the path is extended one waypoint ahead of the episodes
wps_append_ahead(path, w) == Append(Append(path, w), w)

\* wps.append(wp)
wps_append(path, w) == Append(path, w)

\* a call on self.vehicle (get_transform, set_transform, get_traffic_light, ...) raises
\* RuntimeError when the actor is gone and the client library reports that; otherwise the
\* call returns what the client still holds for the actor
CallOnVehicleRaises == ~heroAlive /\ destroyedActorRaises

\* for i in range(num_wp): sample the reference waypoint and the starting points around it
ForWp ==
    /\ pc = "for_wp"
    /\ IF InRange(i, num_wp)
       THEN IF ~SampleNext(wps[i + 1], Draw(rng, rngInc, 0)).ok
            THEN /\ Raise("IndexError")
                 /\ UNCHANGED <<pathVars, episodeVars, rng>>
            ELSE /\ wp' = SampleNext(wps[i + 1], Draw(rng, rngInc, 0)).wp
                 /\ wps' = wps_append(wps, wp')
                 /\ i' = i
                 /\ IF RadiusCheckFails(wp')
                    THEN /\ pc' = "finally"
                         /\ h' = [Halted(h, "error", Len(wps'), Len(dataset))
                                     EXCEPT !.genCalls = @ + 1, !.genWp = wp', !.genRaised = TRUE,
                                            !.error = "ValueError", !.errorAt = pc]
                         /\ rng' = Draw(rng, rngInc, 1)
                         /\ UNCHANGED episodeVars
                    ELSE /\ x0s' = generate_random_starting_pts(wp', num_init_pt, Draw(rng, rngInc, 1), rngInc)
                         /\ rng' = Draw(rng, rngInc, 1 + 3 * num_init_pt)
                         /\ k' = 1
                         /\ pc' = "for_x0"
                         /\ h' = [h EXCEPT !.genCalls = @ + 1, !.genWp = wp', !.genRaised = FALSE]
                         /\ UNCHANGED <<x0, init_vel, init_frame_number>>
       ELSE /\ Leave("completed")
            /\ UNCHANGED <<pathVars, episodeVars, rng>>
    /\ UNCHANGED <<preVars, postVars, row, dataset, tickVars, vehicle, actorVars, rngInc, endVars, normVars>>

\* for x0 in x0s: install the initial condition
ForX0 ==
    /\ pc = "for_x0"
    /\ IF k <= Len(x0s)
       THEN /\ x0' = x0s[k]
            /\ IF ~CallOnVehicleRaises
               THEN /\ init_vel' = generate_random_velocity(max_vel, Draw(rng, rngInc, 0), Draw(rng, rngInc, 1))
                    /\ rng' = Draw(rng, rngInc, 2)
                    /\ vehicle' = IF heroAlive THEN Install(vehicle, x0', init_vel') ELSE vehicle
                    /\ pc' = AfterInstall
                    /\ h' = [h EXCEPT !.installs = @ + 1, !.episodes = @ + 1, !.epRows = 0,
                                      !.epEnded = FALSE, !.epExact = TRUE, !.installFrame = frame,
                                      !.consumed = Append(@, [wp |-> i, ic |-> k]),
                                      !.epIters = 0, !.epWaits = 0]
               ELSE /\ Raise("RuntimeError")    \* set_transform on a destroyed actor
                    /\ UNCHANGED <<init_vel, rng, vehicle>>
            /\ UNCHANGED <<i, k>>
       ELSE /\ i' = i + 1
            /\ pc' = "for_wp"
            /\ UNCHANGED <<x0, init_vel, rng, vehicle, k, h>>
    /\ UNCHANGED <<wps, wp, x0s, init_frame_number, preVars, postVars, row, dataset, tickVars,
                   actorVars, rngInc, endVars, normVars>>

\* world.world.wait_for_tick() at position p, named n, leading to position q
WaitForTick(p, n, q) ==
    /\ pc = p
    /\ \/ \E m \in 0 .. (MaxTickFaults - missed - late), lt \in BOOLEAN :
            /\ lt => missed + late + m < MaxTickFaults
            /\ frame' = frame + 1 + m
            /\ missed' = missed + m
            /\ late' = IF lt THEN late + 1 ELSE late
            /\ vehicle' = IF heroAlive THEN Physics(vehicle, 1 + m, Autopilot(frame')) ELSE vehicle
            /\ hud_frame_number' =
                  IF lt
                  THEN IF pending = << >> THEN hud_frame_number
                       ELSE on_world_tick(pending[Len(pending)])
                  ELSE on_world_tick([frame |-> frame'])
            /\ pending' = IF lt THEN <<[frame |-> frame']>> ELSE << >>
            /\ pc' = q
            /\ h' = [h EXCEPT !.waits = @ + 1, !.epWaits = @ + 1, !.lastWait = n,
                              !.epExact = @ /\ m = 0 /\ ~lt,
                              !.uncheckedWait = (h.waits > 0 /\ h.checksSinceWait = 0),
                              !.checksSinceWait = 0]
       \/ \* no tick within the client's timeout: RuntimeError
          /\ Raise("RuntimeError")
          /\ UNCHANGED <<tickVars, vehicle>>
    /\ UNCHANGED <<pathVars, episodeVars, preVars, postVars, row, dataset, actorVars, rng,
                   rngInc, endVars, normVars>>

WaitInstall == WaitForTick("wait_install", "install", "read_init")

ReadInit ==
    /\ pc = "read_init"
    /\ init_frame_number' = hud_frame_number
    /\ pc' = "while"
    /\ h' = [h EXCEPT !.loops = @ + 1]
    /\ UNCHANGED <<pathVars, x0s, k, x0, init_vel, preVars, postVars, row, dataset, tickVars,
                   vehicle, actorVars, rng, rngInc, endVars, normVars>>

WhileTest ==
    /\ pc = "while"
    /\ IF EpisodeContinues(hud_frame_number, init_frame_number)
       THEN /\ pc' = BodySteps[1]
            /\ h' = [h EXCEPT !.iter = @ + 1, !.epIters = @ + 1]
            /\ k' = k
       ELSE /\ pc' = "for_x0"
            /\ k' = IterNext(k)
            /\ h' = [h EXCEPT !.epEnded = TRUE]
    /\ UNCHANGED <<pathVars, x0s, x0, init_vel, init_frame_number, preVars, postVars, row,
                   dataset, tickVars, vehicle, actorVars, rng, rngInc, endVars, normVars>>

ParseEvents ==
    /\ pc = "parse_events"
    /\ \E ev \in Events :
          IF parse_events(ev)
          THEN Leave("quit")
          ELSE IF restart_raises(ev)
          THEN Raise(IF CallOnVehicleRaises THEN "RuntimeError" ELSE "AttributeError")
          ELSE /\ pc' = After("parse_events")
               /\ h' = [h EXCEPT !.checksSinceWait = 1]
    /\ UNCHANGED <<pathVars, episodeVars, preVars, postVars, row, dataset, tickVars, vehicle,
                   actorVars, rng, rngInc, endVars, normVars>>

WorldTick ==
    /\ pc = "world_tick"
    /\ IF ~world_tick(heroAlive, othersOfType)
       THEN Leave("actor_loss")
       ELSE IF CallOnVehicleRaises
            THEN Raise("RuntimeError")     \* self.vehicle.get_traffic_light() on a destroyed actor
            ELSE /\ pc' = After("world_tick")
                 /\ h' = h
    /\ UNCHANGED <<pathVars, episodeVars, preVars, postVars, row, dataset, tickVars, vehicle,
                   actorVars, rng, rngInc, endVars, normVars>>

WaitPre == WaitForTick("wait_pre", "pre", After("wait_pre"))

ReadPre ==
    /\ pc = "read_pre"
    /\ IF CallOnVehicleRaises
       THEN /\ Raise("RuntimeError")
            /\ UNCHANGED <<preVars, rng>>
       ELSE /\ cur_loc' = vehicle.tf
            /\ cur_vel' = vehicle.vel
            /\ control' = vehicle.control
            /\ cur_wp' = GetWaypoint(cur_loc')
            /\ LET built == BuildFutureWps(<<cur_wp'>>, horizon, rng, rngInc, 0) IN
                 /\ future_wps' = built.wps
                 /\ rng' = Draw(rng, rngInc, built.used)
                 /\ IF built.ok
                    THEN /\ future_wps_np' = FutureWpsNp(built.wps, cur_wp')
                         /\ pc' = After("read_pre")
                         /\ h' = [h EXCEPT !.preIter = h.iter, !.preFrame = frame,
                                           !.preWaits = h.epWaits]
                    ELSE /\ Raise("IndexError")
                         /\ UNCHANGED future_wps_np
    /\ UNCHANGED <<pathVars, episodeVars, postVars, row, dataset, tickVars, vehicle, actorVars,
                   rngInc, endVars, normVars>>

WaitPost == WaitForTick("wait_post", "post", After("wait_post"))

ReadPost ==
    /\ pc = "read_post"
    /\ IF CallOnVehicleRaises
       THEN /\ Raise("RuntimeError")
            /\ UNCHANGED <<postVars, row>>
       ELSE /\ next_loc' = vehicle.tf
            /\ next_vel' = vehicle.vel
            /\ row' = Row(control, cur_loc, cur_vel, next_loc', next_vel', cur_wp, future_wps_np)
            /\ pc' = After("read_post")
            /\ h' = [h EXCEPT !.postIter = h.iter, !.postFrame = frame, !.postWaits = h.epWaits]
    /\ UNCHANGED <<pathVars, episodeVars, preVars, dataset, tickVars, vehicle, actorVars, rng,
                   rngInc, endVars, normVars>>

\* variant: the error of the append is swallowed and the loop goes on
OnAppendError_skip ==
    /\ pc' = After("append")
    /\ h' = h

\* open or writerow raises: no except clause surrounds lines 868-871
OnAppendError == Raise("OSError")

\* the append of the row to outfile, or the error of open or of the write
AppendRow ==
    /\ pc = "append"
    /\ \/ /\ dataset' = writerow(dataset, row)
          /\ pc' = After("append")
          /\ h' = [h EXCEPT !.epRows = @ + 1,
                            !.rowIters = Append(@, [pre |-> h.preIter, post |-> h.postIter, at |-> h.iter])]
       \/ /\ OnAppendError             \* the file cannot be opened or written
          /\ UNCHANGED dataset
    /\ UNCHANGED <<pathVars, episodeVars, preVars, postVars, row, tickVars, vehicle, actorVars,
                   rng, rngInc, endVars, normVars>>

\* variant: the finally block finds no world to destroy
world_destroy_noWorld(n) == n

\* World.destroy: every sensor and the vehicle are destroyed; n counts the calls.  destroy()
\* of an actor that is gone already has no effect
world_destroy(n) == n + 1

\* finally: world.destroy(); pygame.quit(); game_loop is left and main logs an exception
Finally ==
    /\ pc = "finally"
    /\ destroyed' = world_destroy(destroyed)
    /\ pygameQuit' = pygameQuit + 1
    /\ logged' = main_except(h.exit, h.error)
    /\ heroAlive' = FALSE
    /\ pc' = "done"
    /\ UNCHANGED <<pathVars, episodeVars, preVars, postVars, row, dataset, tickVars, vehicle,
                   othersOfType, destroyedActorRaises, rng, rngInc, normVars, h>>

(***************************************************************************)
(* The environment.                                                        *)
(***************************************************************************)
\* the client's callback thread runs hud.on_world_tick for a pending timestamp
OnWorldTick ==
    /\ pending # << >>
    /\ pc # "done"
    /\ hud_frame_number' = on_world_tick(Head(pending))
    /\ pending' = Tail(pending)
    /\ UNCHANGED <<pc, pathVars, episodeVars, preVars, postVars, row, dataset, frame, missed,
                   late, vehicle, actorVars, rng, rngInc, endVars, normVars, h>>

\* what the client returns for an actor that is in no snapshot of the world: the default state
NoSnapshot ==
    [tf |-> ZeroTf, vel |-> ZeroVec, control |-> [throttle |-> 0, steer |-> 0, brake |-> 0]]

\* the controlled actor vanishes from the world
ActorDestroyed ==
    /\ heroAlive
    /\ pc \notin {"for_wp", "finally", "done"}
    /\ heroAlive' = FALSE
    /\ othersOfType' \in BOOLEAN
    /\ destroyedActorRaises' \in BOOLEAN
    /\ vehicle' = NoSnapshot
    /\ UNCHANGED <<pc, pathVars, episodeVars, preVars, postVars, row, dataset, tickVars,
                   rng, rngInc, endVars, normVars, h>>

Next ==
    \/ ForWp
    \/ ForX0
    \/ WaitInstall
    \/ ReadInit
    \/ WhileTest
    \/ ParseEvents
    \/ WorldTick
    \/ WaitPre
    \/ ReadPre
    \/ WaitPost
    \/ ReadPost
    \/ AppendRow
    \/ Finally
    \/ OnWorldTick
    \/ ActorDestroyed

Spec == Init /\ [][Next]_vars

(***************************************************************************)
(* norm on its own: the arguments are chosen at the start and one call is  *)
(* made.                                                                   *)
(***************************************************************************)
NormInit ==
    /\ GameInit
    /\ rng = 0
    /\ rngInc = 1
    /\ norm_x \in (0 - MaxNormX) .. MaxNormX
    /\ norm_x_max \in (0 - MaxNormXMax) .. MaxNormXMax
    /\ norm_ret = NotCalled

NormCall ==
    /\ ~norm_ret.called
    /\ norm_ret' = norm(norm_x, norm_x_max)
    /\ UNCHANGED <<pc, pathVars, episodeVars, preVars, postVars, row, dataset, tickVars, vehicle,
                   actorVars, rng, rngInc, endVars, norm_x, norm_x_max, h>>

NormNext == NormCall

NormSpec == NormInit /\ [][NormNext]_vars

\* game_loop is one thread that keeps running: a statement that can be executed is executed,
\* and wait_for_tick returns or raises when the client's timeout (2 s) has passed
LiveSpec == Init /\ [][Next]_vars /\ WF_vars(Next)

(***************************************************************************)
(* Properties.                                                             *)
(***************************************************************************)
\* rows an episode writes when every tick wait advances the frame by one: one row per two frames
RowsPerEpisode == (FrameBudget + 1) \div 2

RowWidth == 3 + 6 + 3 + 6 + 3 + 2 + 2 * (horizon + 1) + 2

Abs(n) == IF n < 0 THEN 0 - n ELSE n

\* the starting points in x0s were generated around wp
X0sAroundWp == h.genCalls > 0 /\ ~h.genRaised

\* C1 as stated: an episode that ends on its budget has appended exactly FrameBudget (400) rows.
C1_RowsEqualBudget == h.epEnded => h.epRows = FrameBudget

\* C1 amended: an episode that ends on its budget, and in which every tick wait advanced the frame
\* counter by exactly one with hud.frame_number up to date on return, has appended exactly
\* half the budget (rounded up) rows, since every row takes two tick waits.
C1_RowsHalfBudget == (h.epEnded /\ h.epExact) => h.epRows = RowsPerEpisode

C1_Witness == h.epEnded /\ h.epExact /\ h.exit = "none" /\ h.epRows = RowsPerEpisode /\ h.episodes > 1

\* C2 as stated: every generated starting point lies within the disc of the radius around wp,
\* at the height of wp.
C2_WithinDisc ==
    X0sAroundWp =>
        \A n \in 1 .. Len(x0s) :
            /\ Dist2(x0s[n], WpLoc(wp)) <= (radius * Scale) * (radius * Scale)
            /\ x0s[n].z = WpLoc(wp).z

\* C2 amended: every generated starting point lies within the square of half-side radius around wp
\* (each of x and y differs from wp's by at most the radius), at the height of wp.
C2_WithinSquare ==
    X0sAroundWp =>
        \A n \in 1 .. Len(x0s) :
            /\ Abs(x0s[n].x - WpLoc(wp).x) <= radius * Scale
            /\ Abs(x0s[n].y - WpLoc(wp).y) <= radius * Scale
            /\ x0s[n].z = WpLoc(wp).z

C2_Witness ==
    /\ X0sAroundWp
    /\ \E n \in 1 .. Len(x0s) : Dist2(x0s[n], WpLoc(wp)) > (radius * Scale) * (radius * Scale)

\* C3 as stated: generation raises exactly when the radius exceeds half the lane width.
C3_RaisesWhenRadiusExceeds ==
    h.genCalls > 0 => (h.genRaised <=> 2 * radius > LaneWidth(h.genWp))

\* C3 amended: generation raises exactly when the radius is less than half the lane width, and
\* generates the points when the radius is at least half the lane width.
C3_RaisesWhenRadiusBelow ==
    /\ h.genCalls > 0 => (h.genRaised <=> 2 * radius < LaneWidth(h.genWp))
    /\ (h.genCalls > 0 /\ ~h.genRaised) => Len(x0s) = num_init_pt
    /\ h.genRaised => pc \in {"finally", "done"}

C3_Witness == h.genCalls > 1 /\ h.genRaised /\ 2 * radius < LaneWidth(h.genWp) /\ pc = "done"

\* the current iteration has read its pre-state / its post-state
InBody == \E n \in 1 .. Len(BodySteps) : BodySteps[n] = pc

PreReadDone == InBody /\ h.preIter = h.iter

PostReadDone == InBody /\ h.postIter = h.iter

\* C4: the pre-state of an iteration is read at a frame after the frame of the installation and
\* after the frame of the previous post-state read, and the post-state of the iteration is read
\* at a later frame than its pre-state.
C4_ReadsFollowTicks ==
    /\ PreReadDone => h.preFrame > h.installFrame
    /\ (PreReadDone /\ ~PostReadDone) => h.preFrame > h.postFrame
    /\ PostReadDone => (PreReadDone /\ h.postFrame > h.preFrame)

C4_Witness == pc = "append" /\ PreReadDone /\ PostReadDone /\ h.epRows > 0 /\ h.postFrame > h.preFrame

\* C5 as stated: every tick wait of the collection loop after the first one comes after a quit
\* check made since the tick wait before it.
C5_QuitCheckedBeforeEveryWait == ~h.uncheckedWait

\* C5 amended: the quit signal is checked once per iteration of the episode loop, before the
\* iteration's first tick wait: the pre-state wait always follows a quit check made since the
\* tick wait before it, and the post-state wait of the same iteration never does.
C5_QuitCheckedOncePerIteration ==
    /\ h.lastWait = "pre" => ~h.uncheckedWait
    /\ h.lastWait = "post" => h.uncheckedWait

C5_Witness == h.lastWait = "post" /\ h.uncheckedWait /\ pc = "read_post" /\ h.exit = "none"

\* C6: every row of the dataset has the full width and holds a pre-state, a lookahead window and
\* a post-state captured in the iteration that wrote it; once quit is observed no row is added,
\* and the iteration that observed it has written none.
C6_NoPartialRecord ==
    /\ Len(h.rowIters) = Len(dataset)
    /\ \A n \in 1 .. Len(dataset) :
          /\ Len(dataset[n]) = RowWidth
          /\ h.rowIters[n].pre = h.rowIters[n].at
          /\ h.rowIters[n].post = h.rowIters[n].at
    /\ h.exit = "quit" =>
          /\ Len(dataset) = h.haltRows
          /\ \A n \in 1 .. Len(dataset) : h.rowIters[n].at < h.iter

C6_Witness == h.exit = "quit" /\ pc = "done" /\ h.epRows > 0 /\ Len(dataset) > h.epRows

\* C7: after an interruption by quit or actor loss the episode has written at most FrameBudget
\* rows, and no initial condition is installed, no tick awaited and no row appended any more.
C7_InterruptionHalts ==
    h.exit \in {"quit", "actor_loss"} =>
        /\ h.epRows <= FrameBudget
        /\ h.installs = h.haltInstalls
        /\ h.waits = h.haltWaits
        /\ Len(dataset) = h.haltRows
        /\ pc \in {"finally", "done"}

C7_Witness ==
    /\ h.exit \in {"quit", "actor_loss"}
    /\ pc = "done"
    /\ h.epRows > 0
    /\ h.installs < num_wp * num_init_pt

\* initial conditions or reference waypoints that have not been processed yet
WorkRemains == k < Len(x0s) \/ i + 1 < num_wp

\* C8: when World.tick finds no actor of the vehicle's type, game_loop returns, and after that
\* return nothing of the remaining initial conditions and reference waypoints is processed.
C8_ActorLossEndsRun ==
    /\ [][(pc = "world_tick" /\ ActorsOfType(heroAlive, othersOfType) < 1 /\ pc' # pc)
             => (pc' = "finally" /\ h'.exit = "actor_loss")]_vars
    /\ [][h.exit = "actor_loss"
             => (pc' \in {"finally", "done"} /\ wps' = wps /\ i' = i /\ k' = k /\ x0s' = x0s
                 /\ h'.installs = h.installs /\ dataset' = dataset)]_vars

C8_Witness == h.exit = "actor_loss" /\ pc = "done" /\ WorkRemains /\ ~heroAlive /\ ~othersOfType

\* C9: every row of the dataset has 3 + 6 + 3 + 6 + 3 + 2 + 2*(horizon+1) + 2 columns, and a
\* lookahead window that has been built flattens to 2*(horizon+1) entries.
C9_RowWidthConstant ==
    /\ \A n \in 1 .. Len(dataset) : Len(dataset[n]) = RowWidth
    /\ PreReadDone => Len(Flatten(future_wps_np)) = 2 * (horizon + 1)
    /\ pc = "append" => Len(row) = RowWidth

C9_Witness == Len(dataset) > 2 /\ dataset[1] # dataset[2] /\ Len(dataset[Len(dataset)]) = RowWidth

\* C10: when the run completes, the reference path has num_wp + 1 waypoints and each one after
\* the first is among the successors next(sampling_radius) of the one before it.
C10_PathComplete ==
    h.exit = "completed" =>
        /\ Len(wps) = num_wp + 1
        /\ \A n \in 1 .. Len(wps) - 1 :
              \E j \in 1 .. Len(WpNext(wps[n])) : WpNext(wps[n])[j] = wps[n + 1]

C10_Witness == h.exit = "completed" /\ pc = "done" /\ Len(wps) = num_wp + 1 /\ wps[1] = org_wp

\* the statement at pc raised err and nothing ran after it but the finally block
AbortedBy(err, at) ==
    /\ h.exit = "error" /\ h.error = err /\ h.errorAt = at
    /\ pc \in {"finally", "done"}
    /\ Len(dataset) = h.haltRows
    /\ Len(wps) = h.haltPath
    /\ h.installs = h.haltInstalls
    /\ h.waits = h.haltWaits

\* the reference path needs one more waypoint and its last waypoint has no successor
PathExhausted == InRange(i, num_wp) /\ Len(wps) = i + 1 /\ WpNext(wps[Len(wps)]) = << >>

\* a lookahead window has been started and has fewer than horizon + 1 waypoints
WindowShort == future_wps # << >> /\ Len(future_wps) < horizon + 1

\* C11: a waypoint without a successor aborts the run with an IndexError, in the sampling of the
\* reference path as in the construction of the lookahead window: the step from an exhausted
\* path leads to the finally block and adds no waypoint and no row; a short window exists only
\* in a run that its construction aborted, and the iteration that built it has appended no row.
C11_ExhaustionAborts ==
    /\ [](PathExhausted => (pc = "for_wp" \/ AbortedBy("IndexError", "for_wp")))
    /\ [][(PathExhausted /\ pc = "for_wp" /\ pc' # pc)
             => (pc' = "finally" /\ h'.error = "IndexError" /\ wps' = wps /\ dataset' = dataset)]_vars
    /\ [](WindowShort =>
             /\ AbortedBy("IndexError", "read_pre")
             /\ WpNext(future_wps[Len(future_wps)]) = << >>
             /\ \A n \in 1 .. Len(dataset) : h.rowIters[n].at < h.iter)
    /\ [](h.error = "IndexError" => (PathExhausted \/ WindowShort))

C11_Witness ==
    /\ WindowShort
    /\ AbortedBy("IndexError", "read_pre")
    /\ pc = "done"
    /\ Len(dataset) > 0
    /\ h.episodes > 1

\* the positions of game_loop at which the simulator is not awaited
CoreSteps ==
    {"for_wp", "for_x0", "read_init", "while", "parse_events", "world_tick", "read_pre",
     "read_post", "append", "finally"}

\* the episode loop is running: its test or a statement of its body is next
InLoop == pc = "while" \/ InBody

AllInitialConditions ==
    [n \in 1 .. num_wp * num_init_pt |->
        [wp |-> (n - 1) \div num_init_pt, ic |-> ((n - 1) % num_init_pt) + 1]]

\* an episode is under way: its initial condition is installed and its loop has not ended
InEpisode == pc \in {"wait_install", "read_init"} \/ InLoop

\* C13: an initial condition is installed only when no episode is under way (the loop of the
\* episode before it has ended); no initial condition is installed twice, the initial
\* conditions are installed in the order they were generated, the episode under way is the one
\* of the initial condition installed last, and a run that completes has installed every
\* generated initial condition exactly once.
C13_EpisodesInSequence ==
    /\ [][(h'.installs # h.installs)
             => (/\ ~InEpisode
                 /\ h.installs = h.loops
                 /\ (h.installs = 0 \/ h.epEnded)
                 /\ h'.consumed = Append(h.consumed, [wp |-> i, ic |-> k])
                 /\ (heroAlive => vehicle'.tf = x0s[k]))]_vars
    /\ [](\A m, n \in 1 .. Len(h.consumed) : h.consumed[m] = h.consumed[n] => m = n)
    /\ [](/\ Len(h.consumed) = h.installs
          /\ Len(h.consumed) <= Len(AllInitialConditions)
          /\ \A n \in 1 .. Len(h.consumed) : h.consumed[n] = AllInitialConditions[n])
    /\ [](InEpisode => h.consumed[Len(h.consumed)] = [wp |-> i, ic |-> k])
    /\ [](h.exit = "completed" => h.consumed = AllInitialConditions)

C13_Witness ==
    /\ h.exit = "completed"
    /\ pc = "done"
    /\ h.consumed = AllInitialConditions
    /\ h.installs = num_wp * num_init_pt
    /\ Len(dataset) > 0

\* C14: every step leaves the rows of the dataset as they are or adds exactly one row, the row
\* of the iteration, after the last one; no row already written changes, moves or disappears,
\* and the rows lie in the order in which their iterations completed.
C14_AppendOnly ==
    /\ [][\/ dataset' = dataset
          \/ /\ pc = "append"
             /\ Len(dataset') = Len(dataset) + 1
             /\ \A n \in 1 .. Len(dataset) : dataset'[n] = dataset[n]
             /\ dataset'[Len(dataset')] = row
             /\ h'.rowIters[Len(dataset')].at = h.iter]_vars
    /\ [](Len(h.rowIters) = Len(dataset))
    /\ [](\A m, n \in 1 .. Len(h.rowIters) : m < n => h.rowIters[m].at < h.rowIters[n].at)

C14_Witness ==
    /\ Len(dataset) > RowsPerEpisode
    /\ h.episodes > 1
    /\ pc = "while"
    /\ h.rowIters[Len(dataset)].at = h.iter
    /\ dataset[Len(dataset)] = row
    /\ dataset[Len(dataset)] # dataset[1]

\* the columns of a row: pre-location, post-location, and the two relative locations
PreLocOf(r) == [x |-> r[4], y |-> r[5]]

PostLocOf(r) == [x |-> r[13], y |-> r[14]]

RelPreOf(r) == [x |-> r[22], y |-> r[23]]

RelPostOf(r) == [x |-> r[Len(r) - 1], y |-> r[Len(r)]]

\* location a minus the location of waypoint w, in x and y
RelativeTo(a, w) == [x |-> a.x - WpLoc(w).x, y |-> a.y - WpLoc(w).y]

\* the relative locations of row r are taken from the waypoint nearest to its pre-location
RelativeToPreWaypoint(r) ==
    \A cw \in {GetWaypoint(PreLocOf(r))} :
        /\ RelPreOf(r) = RelativeTo(PreLocOf(r), cw)
        /\ RelPostOf(r) = RelativeTo(PostLocOf(r), cw)
        /\ RelPreOf(r).x + WpLoc(cw).x = PreLocOf(r).x
        /\ RelPreOf(r).y + WpLoc(cw).y = PreLocOf(r).y
        /\ RelPostOf(r).x + WpLoc(cw).x = PostLocOf(r).x
        /\ RelPostOf(r).y + WpLoc(cw).y = PostLocOf(r).y

\* C15: in every row that is added to the dataset the relative pre-location is the pre-location
\* minus the location of the waypoint nearest to the pre-location, and the relative
\* post-location is the post-location minus the location of that same waypoint, in x and y;
\* adding the waypoint's location gives the absolute locations back. The waypoint nearest to
\* the post-location plays no part.
C15_RelativeToPreWaypoint ==
    [][(dataset' # dataset) =>
          /\ RelativeToPreWaypoint(dataset'[Len(dataset')])
          /\ cur_wp = GetWaypoint(PreLocOf(dataset'[Len(dataset')]))]_vars

C15_Witness ==
    \E n \in 1 .. Len(dataset) :
        LET r == dataset[n]
            cw == GetWaypoint(PreLocOf(r))
            nw == GetWaypoint(PostLocOf(r))
        IN  /\ nw # cw
            /\ RelPostOf(r) = RelativeTo(PostLocOf(r), cw)
            /\ RelPostOf(r) # RelativeTo(PostLocOf(r), nw)

\* waypoint v is one of the successors next(sampling_radius) of waypoint u
IsSuccessor(u, v) == \E j \in 1 .. Len(WpNext(u)) : WpNext(u)[j] = v

\* C16: a lookahead window whose construction has finished has exactly horizon + 1 waypoints,
\* wherever on the road graph it starts: the first is cur_wp, the waypoint nearest to the
\* pre-location, and each later one is a successor of the one before it; the window is neither
\* padded nor cut, and its relative form has one entry for each of its waypoints.
C16_WindowLength ==
    PreReadDone =>
        /\ Len(future_wps) = horizon + 1
        /\ future_wps[1] = cur_wp
        /\ cur_wp = GetWaypoint(cur_loc)
        /\ \A n \in 1 .. Len(future_wps) - 1 : IsSuccessor(future_wps[n], future_wps[n + 1])
        /\ Len(future_wps_np) = horizon + 1
        /\ \A n \in 1 .. Len(future_wps_np) : Len(future_wps_np[n]) = 2

\* a full window whose last waypoint is the end of the side road
C16_Witness ==
    /\ PreReadDone
    /\ pc = "append"
    /\ Len(future_wps) = horizon + 1
    /\ future_wps[1] = cur_wp
    /\ WpNext(future_wps[Len(future_wps)]) = << >>
    /\ h.episodes > 1

\* the first column of the flattened lookahead window in a row
WindowStart == RowWidth - 2 - 2 * (horizon + 1) + 1

\* the row r holds, column by column, the values captured by the iteration
RowHolds(r) ==
    /\ Len(r) = RowWidth
    /\ SubSeq(r, 1, 3) = <<control.throttle, control.steer, control.brake>>
    /\ SubSeq(r, 4, 9) = <<cur_loc.x, cur_loc.y, cur_loc.z, cur_loc.pitch, cur_loc.yaw, cur_loc.roll>>
    /\ SubSeq(r, 10, 12) = <<cur_vel.x, cur_vel.y, cur_vel.z>>
    /\ SubSeq(r, 13, 18) =
          <<next_loc.x, next_loc.y, next_loc.z, next_loc.pitch, next_loc.yaw, next_loc.roll>>
    /\ SubSeq(r, 19, 21) = <<next_vel.x, next_vel.y, next_vel.z>>
    /\ SubSeq(r, 22, 23) = <<cur_loc.x - WpLoc(cur_wp).x, cur_loc.y - WpLoc(cur_wp).y>>
    /\ \A n \in 0 .. horizon :
          /\ r[WindowStart + 2 * n] = WpLoc(future_wps[n + 1]).x - WpLoc(cur_wp).x
          /\ r[WindowStart + 2 * n + 1] = WpLoc(future_wps[n + 1]).y - WpLoc(cur_wp).y
    /\ SubSeq(r, RowWidth - 1, RowWidth) =
          <<next_loc.x - WpLoc(cur_wp).x, next_loc.y - WpLoc(cur_wp).y>>

\* C17: the row an iteration appends is, in this order: throttle, steer, brake; the pre-pose
\* x, y, z, pitch, yaw, roll; the pre-velocity; the post-pose; the post-velocity; the
\* pre-location relative to cur_wp; for n = 0 .. horizon the location of the n-th waypoint of
\* the lookahead window relative to cur_wp; the post-location relative to cur_wp.
C17_RowLayout ==
    /\ pc = "append" => RowHolds(row)
    /\ (pc = "while" /\ h.postIter = h.iter /\ h.iter > 0) =>
          (Len(dataset) > 0 /\ RowHolds(dataset[Len(dataset)]))

C17_Witness ==
    /\ pc = "while"
    /\ h.postIter = h.iter
    /\ Len(dataset) > 1
    /\ RowHolds(dataset[Len(dataset)])
    /\ cur_loc.yaw # 0
    /\ cur_vel.x # cur_vel.y
    /\ cur_loc.x # next_loc.x
    /\ cur_loc.y # next_loc.y
    /\ WpLoc(future_wps[horizon + 1]).y # WpLoc(cur_wp).y
    /\ future_wps[horizon + 1] # cur_wp

\* C18: no row is dropped without an error: the step after the post-state capture either appends
\* the row and goes on to the loop test, or raises and leads to the finally block; between
\* iterations the number of rows equals the number of iterations started, inside an iteration
\* it is one less, and a run that ended has as many rows as iterations that ran to their end.
C18_NoRowDropped ==
    /\ [][(pc = "append" /\ pc' # pc)
             => \/ (pc' = "while" /\ dataset' = Append(dataset, row))
                \/ (pc' = "finally" /\ dataset' = dataset /\ h'.exit = "error")]_vars
    /\ [](pc \in {"for_wp", "for_x0", "wait_install", "read_init", "while"} => Len(dataset) = h.iter)
    /\ [](InBody => Len(dataset) = h.iter - 1)
    /\ []((pc \in {"finally", "done"} /\ h.exit = "completed") => Len(dataset) = h.iter)
    /\ []((pc \in {"finally", "done"} /\ h.exit = "error" /\ h.errorAt = "append")
             => (Len(dataset) = h.iter - 1 /\ h.postIter = h.iter))

C18_Witness ==
    /\ pc = "done"
    /\ h.exit = "error"
    /\ h.error = "OSError"
    /\ h.errorAt = "append"
    /\ h.postIter = h.iter
    /\ Len(dataset) = h.iter - 1
    /\ Len(dataset) > 0

\* the state of the stepper at a position of game_loop: IDLE between episodes, INSTALLING from
\* the installation to the reading of the initial frame, STEPPING in the episode loop,
\* TERMINATED in and after the finally block. DONE is the instant at which the loop test fails:
\* that step marks the episode as ended and moves on to the next initial condition.
Stepper ==
    CASE pc \in {"for_wp", "for_x0"} -> "IDLE"
      [] pc \in {"wait_install", "read_init"} -> "INSTALLING"
      [] pc \in {"finally", "done"} -> "TERMINATED"
      [] OTHER -> "STEPPING"

\* C19: the stepper changes state only from IDLE to INSTALLING, from INSTALLING to STEPPING,
\* from STEPPING through DONE (the episode is marked as ended) to IDLE, and from any state to
\* the termination of the run; STEPPING is entered only after an installation and its tick
\* wait, an installation happens only in IDLE, and after quit, actor loss or an error the
\* stepper is terminated and stays so.
C19_StepperEdges ==
    /\ [][\/ Stepper' = Stepper
          \/ <<Stepper, Stepper'>> \in
                {<<"IDLE", "INSTALLING">>, <<"INSTALLING", "STEPPING">>, <<"STEPPING", "IDLE">>}
          \/ (Stepper # "TERMINATED" /\ Stepper' = "TERMINATED" /\ h'.exit # "none")]_vars
    /\ [][(Stepper = "STEPPING" /\ Stepper' = "IDLE") => (h'.epEnded /\ ~h.epEnded /\ h'.exit = "none")]_vars
    /\ [][(Stepper # "STEPPING" /\ Stepper' = "STEPPING")
             => (pc = "read_init" /\ h.lastWait = "install" /\ frame > h.installFrame
                 /\ h.installs = h.loops + 1)]_vars
    /\ [][(h'.installs # h.installs) => (Stepper = "IDLE" /\ Stepper' = "INSTALLING")]_vars
    /\ [][(Stepper # "INSTALLING" /\ Stepper' = "INSTALLING") => h'.installs = h.installs + 1]_vars
    /\ [](h.exit # "none" <=> Stepper = "TERMINATED")
    /\ [][(h.exit # "none") => (h'.exit = h.exit /\ Stepper' = "TERMINATED")]_vars
    /\ [][(h'.exit = "completed" /\ h.exit = "none") => Stepper = "IDLE"]_vars

C19_Witness ==
    /\ Stepper = "STEPPING"
    /\ pc = "read_post"
    /\ h.installs > 1
    /\ h.loops = h.installs
    /\ h.lastWait = "post"
    /\ h.exit = "none"
    /\ Len(dataset) > 0

\* the exceptions the statements of the collection loop raise
ErrorKinds == {"IndexError", "ValueError", "RuntimeError", "OSError", "AttributeError"}

\* C20: an exception raised in the collection loop (no successor waypoint, a failed tick wait,
\* a failed append, a lane wider than the configured radius allows, a call on a destroyed actor)
\* leads to the finally block and from there to main, which logs that exception and ends;
\* after it no waypoint is sampled, no initial condition installed, no tick awaited, no
\* iteration started and no row appended: nothing is tried again. (The waypoint whose lane is
\* too wide is the last element of the path: it is appended before its lane is checked.)
C20_ErrorsEndRun ==
    /\ [][(h'.error # h.error)
             => (/\ h.exit = "none" /\ h.error = "none"
                 /\ h'.exit = "error" /\ h'.error \in ErrorKinds /\ h'.errorAt = pc
                 /\ pc' = "finally"
                 /\ dataset' = dataset
                 /\ (h'.error # "ValueError" => wps' = wps))]_vars
    /\ [][(h.exit = "error")
             => (/\ pc' \in {"finally", "done"}
                 /\ h'.exit = "error" /\ h'.error = h.error
                 /\ h'.iter = h.iter /\ h'.installs = h.installs /\ h'.waits = h.waits
                 /\ h'.loops = h.loops /\ h'.genCalls = h.genCalls
                 /\ dataset' = dataset /\ wps' = wps /\ i' = i /\ k' = k
                 /\ frame' = frame /\ vehicle' = vehicle)]_vars
    /\ [](h.exit = "error" <=> h.error # "none")
    /\ [](h.exit = "error" => AbortedBy(h.error, h.errorAt))
    /\ []((pc = "done" /\ h.exit = "error") => (logged = h.error /\ destroyed = 1 /\ pygameQuit = 1))
    /\ []((pc = "done" /\ h.exit # "error") => logged = "none")
    /\ [](pc # "done" => logged = "none")

C20_Witness ==
    /\ pc = "done"
    /\ h.exit = "error"
    /\ h.error = "RuntimeError"
    /\ h.errorAt = "wait_post"
    /\ logged = "RuntimeError"
    /\ WorkRemains
    /\ Len(dataset) > 0
    /\ h.waits = h.haltWaits

\* frames hud.frame_number has advanced since the initial frame of the episode was read
FramesSinceInit == hud_frame_number - init_frame_number

\* C21: the episode loop starts an iteration only while hud.frame_number has advanced by less
\* than the budget since the initial frame was read, and it is left by its test only when the
\* budget has been reached; as the thread keeps running and every tick wait returns or raises,
\* every episode under way eventually ends and every run eventually terminates (a run that
\* nothing interrupts, by completing).
C21_EpisodeEnds ==
    /\ [][(h'.iter # h.iter) => (pc = "while" /\ FramesSinceInit < FrameBudget)]_vars
    /\ [][(pc = "while" /\ FramesSinceInit >= FrameBudget /\ pc' # pc)
             => (pc' = "for_x0" /\ h'.iter = h.iter /\ h'.epEnded)]_vars
    /\ [][(pc = "while" /\ pc' = "for_x0") => FramesSinceInit >= FrameBudget]_vars
    /\ (InEpisode ~> ~InEpisode)
    /\ <>(pc = "done")
    /\ <>(h.exit \in {"completed", "quit", "actor_loss", "error"})
    /\ []((pc = "done" /\ h.exit = "completed") => (h.epEnded /\ h.installs = num_wp * num_init_pt))

C21_Witness ==
    /\ pc = "for_x0"
    /\ h.epEnded
    /\ h.exit = "none"
    /\ FramesSinceInit >= FrameBudget
    /\ h.epRows > 0
    /\ h.episodes > 1

\* velocity v has x and y within [-max_vel, max_vel] and no vertical component
WithinMaxVel(v) ==
    /\ Abs(v.x) <= max_vel * Scale
    /\ Abs(v.y) <= max_vel * Scale
    /\ v.z = 0

\* C22: the velocity installed with an initial condition has x and y within [-max_vel, max_vel]
\* and z = 0; it is the velocity the actor has after the installation, and it is made from two
\* draws the generator had not given out before, for every initial condition anew.
C22_VelocityWithinMax ==
    /\ [][(h'.installs # h.installs)
             => (/\ WithinMaxVel(init_vel')
                 /\ (heroAlive => vehicle'.vel = init_vel')
                 /\ init_vel'.x = max_vel * (2 * Draw(rng, rngInc, 0) - RndLevels)
                 /\ init_vel'.y = max_vel * (2 * Draw(rng, rngInc, 1) - RndLevels)
                 /\ rng' = Draw(rng, rngInc, 2))]_vars
    /\ [](WithinMaxVel(init_vel))
    /\ [][(init_vel' # init_vel) => (h'.installs = h.installs + 1)]_vars

C22_Witness ==
    /\ pc = "wait_install"
    /\ h.installs > 1
    /\ init_vel.x = 0 - max_vel * Scale
    /\ init_vel.y # init_vel.x
    /\ init_vel.y # 0
    /\ vehicle.vel = init_vel

\* C23: a call of norm whose value x/(2*x_max) + 0.5 lies outside the unit range raises instead
\* of returning (so does a call with x_max = 0, and one whose value is exactly 0 or 1); a call
\* that returns has returned exactly x/(2*x_max) + 0.5, and that value lies strictly between 0
\* and 1; a call whose value lies strictly between 0 and 1 returns.
C23_NormRaisesOutsideUnit ==
    norm_ret.called =>
        /\ (norm_x_max # 0 /\ Abs(norm_x) > Abs(norm_x_max)) => (norm_ret.raised /\ norm_ret.error = "ValueError")
        /\ (norm_x_max # 0 /\ Abs(norm_x) = Abs(norm_x_max)) => (norm_ret.raised /\ norm_ret.error = "ValueError")
        /\ norm_x_max = 0 => norm_ret.raised
        /\ (norm_x_max # 0 /\ Abs(norm_x) < Abs(norm_x_max)) => ~norm_ret.raised
        /\ ~norm_ret.raised =>
              /\ norm_x_max # 0
              /\ norm_ret.n.den > 0
              /\ norm_ret.n.num * (2 * norm_x_max) = (norm_x + norm_x_max) * norm_ret.n.den
              /\ 0 < norm_ret.n.num
              /\ norm_ret.n.num < norm_ret.n.den

C23_Witness ==
    /\ norm_ret.called
    /\ norm_ret.raised
    /\ norm_ret.error = "ValueError"
    /\ norm_x_max > 1
    /\ norm_x > norm_x_max
    /\ norm_ret.n.num > norm_ret.n.den

\* C24: every iteration of the episode loop awaits exactly two ticks and appends one row, so at
\* the loop test the episode has awaited 1 + 2 * iterations ticks; an episode that ends on its
\* budget and whose tick waits each advanced the frame counter by exactly one has made
\* RowsPerEpisode iterations, appended as many rows and awaited 1 + 2 * RowsPerEpisode ticks
\* (for an even budget: budget / 2 rows after 1 + budget tick waits; 200 and 401 for 400).
C24_TwoWaitsPerRow ==
    /\ pc = "while" => (h.epWaits = 1 + 2 * h.epIters /\ h.epRows = h.epIters)
    /\ (InBody /\ h.exit = "none") =>
          /\ h.epRows = h.epIters - 1
          /\ h.epWaits >= 1 + 2 * (h.epIters - 1)
          /\ h.epWaits <= 1 + 2 * h.epIters
    /\ (h.epEnded /\ h.epExact) =>
          /\ h.epIters = RowsPerEpisode
          /\ h.epRows = RowsPerEpisode
          /\ h.epWaits = 1 + 2 * RowsPerEpisode
          /\ 2 * RowsPerEpisode \in {FrameBudget, FrameBudget + 1}

C24_Witness ==
    /\ h.epEnded
    /\ h.epExact
    /\ pc = "for_x0"
    /\ h.epIters = RowsPerEpisode
    /\ h.epRows = RowsPerEpisode
    /\ h.epWaits = 1 + FrameBudget
    /\ 2 * h.epRows = FrameBudget

\* C25: the pre-state of the first iteration of an episode is read after two tick waits since
\* the installation, at a frame at least two after the frame of the installation; the pre-state
\* of every later iteration is read one tick wait after the post-state of the iteration before
\* it, at a later frame; so no pre-state is read at the instant of the installation or at the
\* instant of a post-state.
C25_RecordsDoNotChain ==
    /\ [][(h'.preIter # h.preIter)
             => IF h.epIters = 1
                THEN h'.preWaits = 2 /\ frame >= h.installFrame + 2
                ELSE h'.preWaits = h.postWaits + 1 /\ frame > h.postFrame]_vars
    /\ [][(h'.postIter # h.postIter)
             => (h'.postWaits = h.preWaits + 1 /\ frame > h.preFrame)]_vars
    /\ [](PreReadDone => (h.preWaits >= 2 /\ h.preFrame >= h.installFrame + 2))
    /\ []((PreReadDone /\ h.epExact) => h.preFrame = h.installFrame + h.preWaits)

C25_Witness ==
    /\ PreReadDone
    /\ pc = "wait_post"
    /\ h.epIters = 2
    /\ h.epExact
    /\ h.preWaits = h.postWaits + 1
    /\ h.preFrame = h.postFrame + 1
    /\ cur_loc # next_loc
    /\ cur_loc # x0

(***************************************************************************)
(* C26: the actor-loss check goes by the type of the vehicle.              *)
(***************************************************************************)
\* the controlled actor is gone while another actor of its type is in the world
LossUnseen == ~heroAlive /\ othersOfType

WaypointsStarted == IF h.consumed = << >> THEN 0 ELSE h.consumed[Len(h.consumed)].wp + 1

\* the run was ended by quit or by the loss of the actor
Interrupted == h.exit \in {"quit", "actor_loss"}

\* C27 as stated, its last part: a run interrupted by quit or by actor loss leaves a path
\* shorter than num_wp + 1.
C27_InterruptedPathShorter == Interrupted => Len(wps) < num_wp + 1

\* C27 amended: a reference waypoint is sampled only when no episode is under way and every
\* initial condition of the waypoint before it has had its episode; while the episodes of
\* waypoint i + 1 run the path is the origin and the i + 1 waypoints whose episodes have
\* started; a run interrupted by quit or by actor loss leaves that path, which is shorter than
\* num_wp + 1 except when the interruption comes during the episodes of the last waypoint.
C27_PathGrowsWithEpisodes ==
    /\ [][(wps' # wps)
             => (/\ pc = "for_wp"
                 /\ ~InEpisode
                 /\ wps' = Append(wps, wp')
                 /\ Len(wps) = i + 1
                 /\ h.installs = i * num_init_pt
                 /\ WaypointsStarted = i
                 /\ (i > 0 => (h.epEnded /\ k > Len(x0s))))]_vars
    /\ [](wps[1] = org_wp)
    /\ [](InEpisode => (Len(wps) = i + 2 /\ wps[Len(wps)] = wp /\ Len(wps) = 1 + WaypointsStarted))
    /\ [](pc \in {"for_wp", "for_x0"} => Len(wps) - 1 \in {WaypointsStarted, WaypointsStarted + 1})
    /\ [](Len(wps) <= num_wp + 1)
    /\ [](Interrupted =>
             /\ Len(wps) = h.haltPath
             /\ Len(wps) = i + 2
             /\ Len(wps) = 1 + WaypointsStarted
             /\ (Len(wps) < num_wp + 1 <=> i < num_wp - 1))

C27_Witness ==
    /\ pc = "done"
    /\ h.exit = "quit"
    /\ i = num_wp - 1
    /\ Len(wps) = num_wp + 1
    /\ h.installs < num_wp * num_init_pt

(***************************************************************************)
(* C28: the initial conditions lie around the sampled waypoints.           *)
(***************************************************************************)
\* tf is a starting point generate_random_starting_pts can make around waypoint w
AroundWaypoint(tf, w) ==
    \E dx, dy, dyaw \in 0 .. RndLevels - 1 : tf = StartingPt(w, dx, dy, dyaw)

\* the episodes started around the reference waypoint of pass j of the outer loop
EpisodesOfPass(j) == {n \in 1 .. Len(h.consumed) : h.consumed[n].wp = j}

\* C28: starting points are generated once per sampled waypoint, around the waypoint appended
\* to the path in the same pass (wps[i + 2], never the first entry of the path); every episode
\* starts from one of them; a run that completes has run num_wp * num_init_pt episodes,
\* num_init_pt for each pass of the outer loop.
C28_EpisodesAroundSampledWaypoints ==
    /\ [][(h'.genCalls # h.genCalls)
             => (/\ pc = "for_wp"
                 /\ h'.genCalls = h.genCalls + 1
                 /\ Len(wps') = i + 2
                 /\ h'.genWp = wps'[i + 2]
                 /\ (~h'.genRaised =>
                        /\ Len(x0s') = num_init_pt
                        /\ \A n \in 1 .. Len(x0s') : AroundWaypoint(x0s'[n], wps'[i + 2])))]_vars
    /\ [][(x0s' # x0s) => (h'.genCalls # h.genCalls)]_vars
    /\ [](h.genCalls = Len(wps) - 1)
    /\ [](InEpisode => (x0 = x0s[k] /\ AroundWaypoint(x0, wps[i + 2])))
    /\ [](h.exit = "completed" =>
             /\ h.genCalls = num_wp
             /\ h.episodes = num_wp * num_init_pt
             /\ \A j \in 0 .. num_wp - 1 : Cardinality(EpisodesOfPass(j)) = num_init_pt)

C28_Witness ==
    /\ pc = "done"
    /\ h.exit = "completed"
    /\ h.episodes = num_wp * num_init_pt
    /\ Cardinality(EpisodesOfPass(0)) = num_init_pt
    /\ \A n \in 1 .. Len(x0s) : ~AroundWaypoint(x0s[n], wps[1])

(***************************************************************************)
(* C29: the frame counter and the callback of the world tick.              *)
(***************************************************************************)
\* C29: hud.frame_number is written only by on_world_tick, and an episode that ends on its
\* budget without a missed frame has written the same number of rows whenever the callbacks
\* are delivered: a callback delivered after the wait-for-tick has returned neither adds an
\* iteration nor ends the loop early.
C29_RowsSameForEveryInterleaving ==
    (h.epEnded /\ missed = 0) => h.epRows = RowsPerEpisode

(***************************************************************************)
(* C30: the finally block of game_loop.                                    *)
(***************************************************************************)
\* the finally block has run: the actors are destroyed and pygame is shut down
CleanedUp == destroyed = 1 /\ pygameQuit = 1

\* C30: however game_loop is left (all episodes done, quit, actor loss or a raised error), the
\* finally block runs: the actors of the world are destroyed and pygame is shut down, each
\* exactly once, and the dataset gets no row after that.
C30_CleanupOnEveryExit ==
    /\ [](destroyed <= 1 /\ pygameQuit <= 1)
    /\ [](h.exit # "none" => pc \in {"finally", "done"})
    /\ [](pc = "done" <=> CleanedUp)
    /\ [](pc = "done" => h.exit \in {"completed", "quit", "actor_loss", "error"})
    /\ [][(destroyed' # destroyed \/ pygameQuit' # pygameQuit)
             => (/\ pc = "finally"
                 /\ h.exit # "none"
                 /\ destroyed = 0 /\ pygameQuit = 0
                 /\ CleanedUp'
                 /\ ~heroAlive'
                 /\ dataset' = dataset)]_vars
    /\ [][(destroyed > 0 \/ pygameQuit > 0)
             => (dataset' = dataset /\ destroyed' = destroyed /\ pygameQuit' = pygameQuit)]_vars
    /\ \A reason \in {"completed", "quit", "actor_loss", "error"} :
          (h.exit = reason) ~> (pc = "done" /\ CleanedUp /\ h.exit = reason /\ Len(dataset) = h.haltRows)

C30_Witness ==
    /\ pc = "done"
    /\ CleanedUp
    /\ h.exit = "actor_loss"
    /\ ~heroAlive
    /\ Len(dataset) > 0
    /\ Len(dataset) = h.haltRows

====
